---------------------------- MODULE Spec2Model ----------------------------
(* agentlink: the symlink manager (internal/symlink/manager.go) and the     *)
(* check / sync / clean command loops (internal/cli) over a small POSIX     *)
(* filesystem.                                                              *)
(*                                                                          *)
(* A path string is a record [abs, segs]: abs says whether it starts with   *)
(* "/", segs are its components ("." and ".." included, as stored).  The    *)
(* filesystem maps physical paths (sequences of names below the root) to    *)
(* entries; the root is always a directory.                                 *)
EXTENDS Naturals, Sequences, FiniteSets, TLC

\* ------------------------------------------------------------------ bounds
\* Depth of the modelled directory tree.
MaxDepth == 2
\* Symlinks followed in one path resolution before ELOOP.
MaxHops == 4

Names == {"a", "b"}

\* Physical paths below the root.
AllPaths == UNION {[1..n -> Names] : n \in 1..MaxDepth}

\* ------------------------------------------------------------ path strings
AbsPath(segs) == [abs |-> TRUE, segs |-> segs]
RelPath(segs) == [abs |-> FALSE, segs |-> segs]
NoTarget == RelPath(<<>>)

Front(s) == SubSeq(s, 1, Len(s) - 1)
Last(s) == s[Len(s)]

RECURSIVE CleanAcc(_, _, _)
CleanAcc(abs, segs, acc) ==
  IF segs = <<>> THEN acc
  ELSE LET s == Head(segs) IN
       IF s = "." THEN CleanAcc(abs, Tail(segs), acc)
       ELSE IF s = ".."
            THEN IF acc # <<>> /\ Last(acc) # ".."
                 THEN CleanAcc(abs, Tail(segs), Front(acc))
                 ELSE IF abs THEN CleanAcc(abs, Tail(segs), acc)
                      ELSE CleanAcc(abs, Tail(segs), Append(acc, ".."))
            ELSE CleanAcc(abs, Tail(segs), Append(acc, s))

\* filepath.Clean: drops ".", resolves "name/..", drops ".." at the root.
\* The relative path with no components is ".".
Clean(p) == [abs |-> p.abs, segs |-> CleanAcc(p.abs, p.segs, <<>>)]

IsAbs(p) == p.abs

\* filepath.Dir: all but the last element, cleaned.
Dir(p) == Clean([abs |-> p.abs, segs |-> IF p.segs = <<>> THEN <<>> ELSE Front(p.segs)])

\* filepath.Join of a non-empty first element and a second one.
Join(d, t) == Clean([abs |-> d.abs, segs |-> d.segs \o t.segs])

RECURSIVE CommonLen(_, _)
CommonLen(b, t) ==
  IF b = <<>> \/ t = <<>> \/ Head(b) # Head(t) THEN 0
  ELSE 1 + CommonLen(Tail(b), Tail(t))

\* Rel that forgets the ".." steps out of the base directory.
Rel_NoDotDot(basepath, targpath) ==
  LET base == Clean(basepath)
      targ == Clean(targpath)
      n == CommonLen(base.segs, targ.segs)
      trest == SubSeq(targ.segs, n + 1, Len(targ.segs))
  IN IF base = targ THEN [err |-> FALSE, path |-> RelPath(<<>>)]
     ELSE IF base.abs # targ.abs THEN [err |-> TRUE, path |-> NoTarget]
     ELSE [err |-> FALSE, path |-> RelPath(trest)]

\* filepath.Rel on the remainders of the cleaned paths after their common
\* prefix: one ".." for each component left of the base, then the rest of
\* the target.
RelRest(brest, trest) ==
  IF brest # <<>> /\ Head(brest) = ".." THEN [err |-> TRUE, path |-> NoTarget]
  ELSE [err |-> FALSE, path |-> RelPath([i \in 1..Len(brest) |-> ".."] \o trest)]

\* filepath.Rel on cleaned paths; n is the length of their common prefix.
RelClean(base, targ, n) ==
  IF base = targ THEN [err |-> FALSE, path |-> RelPath(<<>>)]
  ELSE IF base.abs # targ.abs THEN [err |-> TRUE, path |-> NoTarget]
  ELSE RelRest(SubSeq(base.segs, n + 1, Len(base.segs)),
               SubSeq(targ.segs, n + 1, Len(targ.segs)))

\* filepath.Rel(basepath, targpath).
Rel(basepath, targpath) ==
  RelClean(Clean(basepath), Clean(targpath),
           CommonLen(Clean(basepath).segs, Clean(targpath).segs))

\* -------------------------------------------------------------- filesystem
NoEntry == [type |-> "none", content |-> "", target |-> NoTarget]
DirEntry == [type |-> "dir", content |-> "", target |-> NoTarget]
FileEntry(c) == [type |-> "file", content |-> c, target |-> NoTarget]
LinkEntry(t) == [type |-> "symlink", content |-> "", target |-> t]

Lookup(f, p) ==
  IF p = <<>> THEN DirEntry
  ELSE IF p \in DOMAIN f THEN f[p] ELSE NoEntry

Parent(p) == IF p = <<>> THEN <<>> ELSE Front(p)

IsPrefix(p, q) == Len(p) <= Len(q) /\ SubSeq(q, 1, Len(p)) = p

\* Kernel path resolution from the directory cur.  follow: whether a symlink
\* in the last component is followed (stat) or returned (lstat).  The result
\* names the physical path reached; on ENOENT, last says that only the final
\* component is missing (its parent directory exists).
RECURSIVE Walk(_, _, _, _, _)
Walk(f, cur, segs, hops, follow) ==
  IF segs = <<>> THEN [err |-> "", path |-> cur, last |-> FALSE]
  ELSE LET s == Head(segs)
           rest == Tail(segs)
       IN IF s = "." THEN Walk(f, cur, rest, hops, follow)
          ELSE IF s = ".." THEN Walk(f, Parent(cur), rest, hops, follow)
          ELSE LET p == Append(cur, s)
                   e == Lookup(f, p)
               IN CASE e.type = "none" ->
                         [err |-> "ENOENT", path |-> p, last |-> (rest = <<>>)]
                    [] e.type = "file" ->
                         IF rest = <<>> THEN [err |-> "", path |-> p, last |-> FALSE]
                         ELSE [err |-> "ENOTDIR", path |-> p, last |-> FALSE]
                    [] e.type = "dir" -> Walk(f, p, rest, hops, follow)
                    [] e.type = "symlink" ->
                         IF rest = <<>> /\ ~follow
                         THEN [err |-> "", path |-> p, last |-> FALSE]
                         ELSE IF hops = 0
                         THEN [err |-> "ELOOP", path |-> p, last |-> FALSE]
                         ELSE Walk(f, IF e.target.abs THEN <<>> ELSE cur,
                                   e.target.segs \o rest, hops - 1, follow)

Resolve(f, p, follow) == Walk(f, <<>>, p.segs, MaxHops, follow)

\* The FileInfo (or error) for a resolution r.
FileInfo(f, r) ==
  [err |-> r.err, entry |-> IF r.err = "" THEN Lookup(f, r.path) ELSE NoEntry,
   path |-> r.path]

\* os.Lstat / os.Stat; fault: the call fails with an I/O error.
Lstat(f, p, fault) ==
  IF fault THEN [err |-> "EIO", entry |-> NoEntry, path |-> <<>>]
  ELSE FileInfo(f, Resolve(f, p, FALSE))

Stat(f, p) == FileInfo(f, Resolve(f, p, TRUE))

IsNotExist(err) == err = "ENOENT"

\* os.Readlink of an entry lstat reported as a symlink.
ReadlinkAt(f, r) ==
  IF r.err # "" THEN [err |-> r.err, target |-> NoTarget]
  ELSE IF Lookup(f, r.path).type # "symlink" THEN [err |-> "EINVAL", target |-> NoTarget]
  ELSE [err |-> "", target |-> Lookup(f, r.path).target]

Readlink(f, p, fault) ==
  IF fault THEN [err |-> "EIO", target |-> NoTarget]
  ELSE ReadlinkAt(f, Resolve(f, p, FALSE))

HasChild(f, p) == \E q \in DOMAIN f : Len(q) = Len(p) + 1 /\ IsPrefix(p, q) /\ f[q].type # "none"

\* os.Remove: unlink a file or symlink, rmdir an empty directory.
RemoveAt(f, r) ==
  IF r.err # "" THEN [err |-> r.err, fs |-> f]
  ELSE IF r.path = <<>> THEN [err |-> "EBUSY", fs |-> f]
  ELSE IF Lookup(f, r.path).type = "dir" /\ HasChild(f, r.path)
       THEN [err |-> "ENOTEMPTY", fs |-> f]
  ELSE [err |-> "", fs |-> [f EXCEPT ![r.path] = NoEntry]]

Remove(f, p, fault) ==
  IF fault THEN [err |-> "EIO", fs |-> f]
  ELSE RemoveAt(f, Resolve(f, p, FALSE))

\* os.RemoveAll: remove the entry and everything below it; nil when absent.
RemoveAllAt(f, r) ==
  IF IsNotExist(r.err) THEN [err |-> "", fs |-> f]
  ELSE IF r.err # "" THEN [err |-> r.err, fs |-> f]
  ELSE IF r.path = <<>> THEN [err |-> "EBUSY", fs |-> f]
  ELSE [err |-> "",
        fs |-> [q \in DOMAIN f |-> IF IsPrefix(r.path, q) THEN NoEntry ELSE f[q]]]

RemoveAll(f, p, fault) ==
  IF fault THEN [err |-> "EIO", fs |-> f]
  ELSE RemoveAllAt(f, Resolve(f, p, FALSE))

\* Creation of the entry e where the resolution r ended: the parent must
\* exist, the name must not.  oob: the new entry would lie below the
\* modelled tree.
CreateAt(f, r, e) ==
  IF r.err = "" THEN [err |-> "EEXIST", fs |-> f, oob |-> FALSE]
  ELSE IF r.err = "ENOENT" /\ r.last
       THEN IF r.path \in DOMAIN f
            THEN [err |-> "", fs |-> [f EXCEPT ![r.path] = e], oob |-> FALSE]
            ELSE [err |-> "", fs |-> f, oob |-> TRUE]
  ELSE [err |-> r.err, fs |-> f, oob |-> FALSE]

\* mkdir(2).
Mkdir(f, p) == CreateAt(f, Resolve(f, p, FALSE), DirEntry)

\* os.MkdirAll: nil if the path is a directory, else create the parent
\* chain and then the directory itself.
RECURSIVE MkdirAll(_, _, _)

\* MkdirAll's last step: the result mk of Mkdir, unless it failed and lstat
\* (ls) shows a directory there after all.
MkdirOrExists(f, mk, ls) ==
  IF mk.err # "" /\ ls.err = "" /\ ls.entry.type = "dir"
  THEN [err |-> "", fs |-> f, oob |-> FALSE]
  ELSE mk

\* MkdirAll after the parent chain was created with result up.
MkdirAfterParent(p, up) ==
  IF up.err # "" \/ up.oob THEN up
  ELSE MkdirOrExists(up.fs, Mkdir(up.fs, p), Lstat(up.fs, p, FALSE))

\* MkdirAll after its fast path: st is the result of Stat(p).
MkdirAllStat(f, p, st) ==
  IF st.err = ""
  THEN IF st.entry.type = "dir" THEN [err |-> "", fs |-> f, oob |-> FALSE]
       ELSE [err |-> "ENOTDIR", fs |-> f, oob |-> FALSE]
  ELSE MkdirAfterParent(p, IF p.segs = <<>> THEN [err |-> "", fs |-> f, oob |-> FALSE]
                           ELSE MkdirAll(f, Dir(p), FALSE))

MkdirAll(f, p, fault) ==
  IF fault THEN [err |-> "EIO", fs |-> f, oob |-> FALSE]
  ELSE MkdirAllStat(f, p, Stat(f, p))

\* os.Symlink(target, linkPath): the name must not exist.
Symlink(f, target, p, fault) ==
  IF fault THEN [err |-> "EIO", fs |-> f, oob |-> FALSE]
  ELSE CreateAt(f, Resolve(f, p, FALSE), LinkEntry(target))


\* ------------------------------------------------- internal/symlink/manager
StatusOK == "OK"
StatusMissing == "missing"
StatusWrongTarget == "wrong target"
StatusNotSymlink == "not a symlink"
StatusBroken == "broken"
LinkStatus == {StatusOK, StatusMissing, StatusWrongTarget, StatusNotSymlink, StatusBroken}

\* I/O failures the environment may inject into one kind of system call.
Faults == {"none", "lstat", "readlink", "remove", "mkdir", "symlink"}

\* runClean classifies a link and RemoveLink classifies it again: "recheck"
\* is os.Lstat failing in the second classification only.
CleanFaults == Faults \cup {"recheck"}
RecheckFault(fault) == IF fault = "recheck" THEN "lstat" ELSE fault

LinkInfo(path, target, expected, status, error) ==
  [Path |-> path, Target |-> target, ExpectedPath |-> expected,
   Status |-> status, Error |-> error]

\* ValidateSource that lets a missing source pass.
ValidateSource_MissingOK(f, force, sourcePath, fault) ==
  LET st == Lstat(f, sourcePath, fault = "lstat")
  IN IF st.err # ""
     THEN IF IsNotExist(st.err) THEN "" ELSE "failed to stat source"
     ELSE IF st.entry.type = "symlink" /\ ~force THEN "source is a symlink"
     ELSE IF st.entry.type # "file" /\ st.entry.type # "symlink"
          THEN "source is not a regular file"
     ELSE ""

\* Validation that accepts a symlink as source without force.
ValidateInfo_SymlinkOK(force, st) ==
  IF st.err # ""
  THEN IF IsNotExist(st.err) THEN "source does not exist"
       ELSE "failed to stat source"
  ELSE IF st.entry.type # "file" /\ st.entry.type # "symlink"
       THEN "source is not a regular file"
  ELSE ""

\* ValidateSource's tests on the result st of os.Lstat(sourcePath).
ValidateInfo(force, st) ==
  IF st.err # ""
  THEN IF IsNotExist(st.err) THEN "source does not exist"
       ELSE "failed to stat source"
  ELSE IF st.entry.type = "symlink" /\ ~force THEN "source is a symlink"
  ELSE IF st.entry.type # "file" /\ st.entry.type # "symlink"
       THEN "source is not a regular file"
  ELSE ""

\* Manager.ValidateSource: "" is a nil error.
ValidateSource(f, force, sourcePath, fault) ==
  ValidateInfo(force, Lstat(f, sourcePath, fault = "lstat"))

\* The comparison without resolving a relative target against the link's
\* directory.
TargetMatches_Raw(linkPath, raw, expectedTarget) ==
  Clean(raw) = Clean(expectedTarget)

\* A comparison that accepts only relative targets.
TargetMatches_RelOnly(linkPath, raw, expectedTarget) ==
  /\ ~IsAbs(raw)
  /\ Clean(Join(Dir(linkPath), raw)) = Clean(expectedTarget)

\* CheckLink's comparison: the raw target, made absolute against the link's
\* own directory when relative, cleaned, against the cleaned expected path.
TargetMatches(linkPath, raw, expectedTarget) ==
  Clean(IF ~IsAbs(raw) THEN Join(Dir(linkPath), raw) ELSE raw) = Clean(expectedTarget)

\* CheckLink's classification from the results li of os.Lstat(linkPath)
\* and rl of os.Readlink(linkPath).
Classify(linkPath, expectedTarget, li, rl) ==
  IF li.err # ""
  THEN IF IsNotExist(li.err)
       THEN LinkInfo(linkPath, NoTarget, expectedTarget, StatusMissing, "")
       ELSE LinkInfo(linkPath, NoTarget, expectedTarget, StatusBroken, li.err)
  ELSE IF li.entry.type # "symlink"
       THEN LinkInfo(linkPath, NoTarget, expectedTarget, StatusNotSymlink, "")
  ELSE IF rl.err # ""
       THEN LinkInfo(linkPath, NoTarget, expectedTarget, StatusBroken, rl.err)
  ELSE IF TargetMatches(linkPath, rl.target, expectedTarget)
       THEN LinkInfo(linkPath, rl.target, expectedTarget, StatusOK, "")
       ELSE LinkInfo(linkPath, rl.target, expectedTarget, StatusWrongTarget, "")

\* Manager.CheckLink.
CheckLink(f, linkPath, expectedTarget, fault) ==
  Classify(linkPath, expectedTarget,
           Lstat(f, linkPath, fault = "lstat"),
           Readlink(f, linkPath, fault = "readlink"))

\* CreateLink's return after os.Symlink returned sl.
SymlinkResult(f, sl) ==
  IF sl.oob THEN [err |-> "", fs |-> f, oob |-> TRUE]
  ELSE IF sl.err # "" THEN [err |-> "failed to create symlink", fs |-> sl.fs, oob |-> FALSE]
  ELSE [err |-> "", fs |-> sl.fs, oob |-> FALSE]

\* CreateLink after os.MkdirAll returned mk and filepath.Rel returned rel.
CreateIn(f, linkPath, mk, rel, fault) ==
  IF mk.oob THEN [err |-> "", fs |-> f, oob |-> TRUE]
  ELSE IF mk.err # ""
       THEN [err |-> "failed to create parent directory", fs |-> mk.fs, oob |-> FALSE]
  ELSE IF rel.err
       THEN [err |-> "failed to calculate relative path", fs |-> mk.fs, oob |-> FALSE]
  ELSE SymlinkResult(f, Symlink(mk.fs, rel.path, linkPath, fault = "symlink"))

\* CreateLink that stores the absolute target path.
CreateLink_AbsTarget(f, dryRun, linkPath, targetPath, fault) ==
  IF dryRun THEN [err |-> "", fs |-> f, oob |-> FALSE]
  ELSE CreateIn(f, linkPath, MkdirAll(f, Dir(linkPath), fault = "mkdir"),
                [err |-> FALSE, path |-> targetPath], fault)

\* Manager.CreateLink.
CreateLink(f, dryRun, linkPath, targetPath, fault) ==
  IF dryRun THEN [err |-> "", fs |-> f, oob |-> FALSE]
  ELSE CreateIn(f, linkPath, MkdirAll(f, Dir(linkPath), fault = "mkdir"),
                Rel(Dir(linkPath), targetPath), fault)

\* RemoveLink that deletes every symlink, whatever it points to.
Managed_AnySymlink(status) == status \in {StatusOK, StatusWrongTarget}

\* RemoveLink's test: the statuses whose entry it deletes.
Managed(status) == status = StatusOK

\* The error (wrapped as msg) and filesystem after a removal returned rm.
RemoveResult(rm, msg) == [err |-> IF rm.err # "" THEN msg ELSE "", fs |-> rm.fs]

\* Manager.RemoveLink.
RemoveLink(f, dryRun, linkPath, expectedTarget, fault) ==
  IF dryRun THEN [err |-> "", fs |-> f]
  ELSE IF Managed(CheckLink(f, linkPath, expectedTarget, RecheckFault(fault)).Status)
       THEN RemoveResult(Remove(f, linkPath, fault = "remove"), "failed to remove symlink")
  ELSE [err |-> "", fs |-> f]

\* FixLink without its case for StatusOK.
SkipCase_Never(status) == FALSE

\* FixLink's first case: the statuses answered with "skip".
SkipCase(status) == status = StatusOK

\* The force check missing in the NotSymlink case.
Refuses_WrongTargetOnly(force, status) == ~force /\ status = StatusWrongTarget

\* A force check added to the Broken case.
Refuses_BrokenToo(force, status) ==
  ~force /\ status \in {StatusWrongTarget, StatusNotSymlink, StatusBroken}

\* FixLink's force checks: the statuses rejected with a conflict error.
Refuses(force, status) == ~force /\ status \in {StatusWrongTarget, StatusNotSymlink}

ConflictError(status) ==
  IF status = StatusWrongTarget THEN "points to wrong target, use --force"
  ELSE "exists and is not a symlink, use --force"

\* FixLink's return after CreateLink returned cr: the action on success.
CreateResult(cr, action) ==
  IF cr.err # "" \/ cr.oob THEN [action |-> "", err |-> cr.err, fs |-> cr.fs, oob |-> cr.oob]
  ELSE [action |-> action, err |-> "", fs |-> cr.fs, oob |-> FALSE]

\* A repair that removes the old entry and reports the action without
\* creating the link.
RemoveThenCreate_RemoveOnly(rm, rmErr, dryRun, linkPath, targetPath, fault, action) ==
  IF rm.err # "" THEN [action |-> "", err |-> rmErr, fs |-> rm.fs, oob |-> FALSE]
  ELSE [action |-> action, err |-> "", fs |-> rm.fs, oob |-> FALSE]

\* The tail shared by the fix, replace and fix-broken branches of FixLink:
\* the removal result rm, then CreateLink, then the action string.
RemoveThenCreate(rm, rmErr, dryRun, linkPath, targetPath, fault, action) ==
  IF rm.err # "" THEN [action |-> "", err |-> rmErr, fs |-> rm.fs, oob |-> FALSE]
  ELSE CreateResult(CreateLink(rm.fs, dryRun, linkPath, targetPath, fault), action)

\* FixLink's switch on the status CheckLink reported.  The removals are not
\* conditional on dryRun.
FixStatus(f, dryRun, force, linkPath, targetPath, fault, status) ==
  IF SkipCase(status)
  THEN [action |-> "skip", err |-> "", fs |-> f, oob |-> FALSE]
  ELSE IF status = StatusMissing
  THEN CreateResult(CreateLink(f, dryRun, linkPath, targetPath, fault), "create")
  ELSE IF Refuses(force, status)
  THEN [action |-> "", err |-> ConflictError(status), fs |-> f, oob |-> FALSE]
  ELSE IF status = StatusWrongTarget
  THEN RemoveThenCreate(Remove(f, linkPath, fault = "remove"),
                        "failed to remove wrong symlink",
                        dryRun, linkPath, targetPath, fault, "fix")
  ELSE IF status = StatusNotSymlink
  THEN RemoveThenCreate(RemoveAll(f, linkPath, fault = "remove"),
                        "failed to remove existing file",
                        dryRun, linkPath, targetPath, fault, "replace")
  ELSE IF status = StatusBroken
  THEN RemoveThenCreate(Remove(f, linkPath, fault = "remove"),
                        "failed to remove broken symlink",
                        dryRun, linkPath, targetPath, fault, "fix broken")
  ELSE [action |-> "", err |-> "unknown link status", fs |-> f, oob |-> FALSE]

\* Manager.FixLink.
FixLink(f, dryRun, force, linkPath, targetPath, fault) ==
  FixStatus(f, dryRun, force, linkPath, targetPath, fault,
            CheckLink(f, linkPath, targetPath, fault).Status)

\* ----------------------------------------------------------------- state
VARIABLES
  source,   \* cfg.Source: the configured source path (physical components)
  links,    \* cfg.Links: the configured link paths, in order
  dryRun,   \* the --dry-run flag
  force,    \* the --force flag
  fs,       \* the filesystem
  pc,       \* "idle": no call in progress; "returned": last holds a call's results
  last      \* the last call made: its arguments, the state before, its results

vars == <<source, links, dryRun, force, fs, pc, last>>

Src == AbsPath(source)
LinkAt(i) == AbsPath(links[i])

\* -------------------------------------------------- internal/cli commands
Call(fn, link, status, action, err) ==
  [fn |-> fn, link |-> link, status |-> status, action |-> action, err |-> err]

FaultAt(fault, at, i) == IF at = i THEN fault ELSE "none"

\* The record of manager.ValidateSource(cfg.Source) returning v.
ValidateCall(v) == Call("ValidateSource", source, "", "", v)

RECURSIVE SyncLoop(_, _, _, _, _, _)

\* A loop that ends at the first link whose FixLink returns an error.
SyncStep_StopOnError(f, i, hasErrors, calls, fault, at, r, status) ==
  IF r.oob THEN [fs |-> f, hasErrors |-> hasErrors, calls |-> calls, oob |-> TRUE]
  ELSE IF r.err # ""
  THEN [fs |-> r.fs, hasErrors |-> TRUE,
        calls |-> Append(calls, Call("FixLink", links[i], status, r.action, r.err)),
        oob |-> FALSE]
  ELSE SyncLoop(r.fs, i + 1, hasErrors,
                Append(calls, Call("FixLink", links[i], status, r.action, r.err)),
                fault, at)

\* One iteration of runSync's loop: processLink's FixLink returned r for a
\* link whose status was status.
SyncStep(f, i, hasErrors, calls, fault, at, r, status) ==
  IF r.oob THEN [fs |-> f, hasErrors |-> hasErrors, calls |-> calls, oob |-> TRUE]
  ELSE SyncLoop(r.fs, i + 1, hasErrors \/ r.err # "",
                Append(calls, Call("FixLink", links[i], status, r.action, r.err)),
                fault, at)

\* runSync, the loop over cfg.Links (processLink calls FixLink).
SyncLoop(f, i, hasErrors, calls, fault, at) ==
  IF i > Len(links)
  THEN [fs |-> f, hasErrors |-> hasErrors, calls |-> calls, oob |-> FALSE]
  ELSE SyncStep(f, i, hasErrors, calls, fault, at,
                FixLink(f, dryRun, force, LinkAt(i), Src, FaultAt(fault, at, i)),
                CheckLink(f, LinkAt(i), Src, FaultAt(fault, at, i)).Status)

\* A sync that returns nil whatever the links returned.
SyncResult_Nil(lp) ==
  [fs |-> lp.fs, err |-> "", calls |-> lp.calls, oob |-> lp.oob,
   removed |-> 0, skipped |-> 0]

\* runSync's return after the loop returned lp.
SyncResult(lp) ==
  [fs |-> lp.fs,
   err |-> IF lp.hasErrors THEN "sync completed with errors" ELSE "",
   calls |-> lp.calls, oob |-> lp.oob, removed |-> 0, skipped |-> 0]

\* runSync after manager.ValidateSource returned v.
SyncValidated(f, fault, at, v) ==
  IF v # ""
  THEN [fs |-> f, err |-> v, calls |-> <<ValidateCall(v)>>, oob |-> FALSE,
        removed |-> 0, skipped |-> 0]
  ELSE SyncResult(SyncLoop(f, 1, FALSE, <<ValidateCall(v)>>, fault, at))

\* runSync after the configuration is loaded.
RunSync(f, fault, at) ==
  SyncValidated(f, fault, at, ValidateSource(f, force, Src, FaultAt(fault, at, 0)))

\* The record of manager.CheckLink(links[i], cfg.Source) returning info.
CheckCall(i, info) == Call("CheckLink", links[i], info.Status, "", info.Error)

RECURSIVE CheckLoop(_, _, _, _, _, _)

\* A loop in which only the last link decides whether there are problems.
CheckStep_LastOnly(f, i, hasProblems, calls, fault, at, info) ==
  CheckLoop(f, i + 1, info.Status # StatusOK,
            Append(calls, CheckCall(i, info)), fault, at)

\* One iteration of runCheck's loop: CheckLink returned info.
CheckStep(f, i, hasProblems, calls, fault, at, info) ==
  CheckLoop(f, i + 1, hasProblems \/ info.Status # StatusOK,
            Append(calls, CheckCall(i, info)), fault, at)

\* runCheck, the loop over cfg.Links.
CheckLoop(f, i, hasProblems, calls, fault, at) ==
  IF i > Len(links) THEN [hasProblems |-> hasProblems, calls |-> calls]
  ELSE CheckStep(f, i, hasProblems, calls, fault, at,
                 CheckLink(f, LinkAt(i), Src, FaultAt(fault, at, i)))

\* runCheck's return after the loop returned lp.
CheckResult(f, lp) ==
  [fs |-> f,
   err |-> IF lp.hasProblems THEN "configuration has problems" ELSE "",
   calls |-> lp.calls, oob |-> FALSE, removed |-> 0, skipped |-> 0]

\* runCheck after manager.ValidateSource returned v: an invalid source is
\* recorded as a problem and the loop runs all the same.
CheckValidated(f, fault, at, v) ==
  CheckResult(f, CheckLoop(f, 1, v # "", <<ValidateCall(v)>>, fault, at))

\* A check whose manager is built from the --force flag.
RunCheck_WithForce(f, fault, at) ==
  CheckValidated(f, fault, at, ValidateSource(f, force, Src, FaultAt(fault, at, 0)))

\* runCheck after the configuration is loaded: NewManager(false, false, verbose).
RunCheck(f, fault, at) ==
  CheckValidated(f, fault, at, ValidateSource(f, FALSE, Src, FaultAt(fault, at, 0)))

RECURSIVE CleanLoop(_, _, _, _, _, _, _)

\* runClean's loop after a removal (fn: the call made) returned res: the
\* link is counted as removed unless the removal failed.
CleanRemoved(i, removedCount, skippedCount, calls, fault, at, status, fn, res) ==
  CleanLoop(res.fs, i + 1, IF res.err # "" THEN removedCount ELSE removedCount + 1,
            skippedCount, Append(calls, Call(fn, links[i], status, "", res.err)),
            fault, at)

\* A loop body that removes without looking at dryRun.
CleanStep_NoDryRun(f, i, removedCount, skippedCount, calls, fault, at, status) ==
  CASE status = StatusOK ->
         CleanRemoved(i, removedCount, skippedCount, calls, fault, at, status,
                      "RemoveLink",
                      RemoveLink(f, FALSE, LinkAt(i), Src, FaultAt(fault, at, i)))
    [] status = StatusBroken ->
         CleanRemoved(i, removedCount, skippedCount, calls, fault, at, status,
                      "os.Remove",
                      RemoveResult(Remove(f, LinkAt(i), FaultAt(fault, at, i) = "remove"),
                                   "failed to remove broken symlink"))
    [] OTHER ->
         CleanLoop(f, i + 1, removedCount, skippedCount + 1, calls, fault, at)

\* One iteration of runClean's loop: CheckLink returned info, recorded in
\* calls.
CleanStep(f, i, removedCount, skippedCount, calls, fault, at, status) ==
  CASE status = StatusOK ->
         IF dryRun
         THEN CleanLoop(f, i + 1, removedCount + 1, skippedCount, calls, fault, at)
         ELSE CleanRemoved(i, removedCount, skippedCount, calls, fault, at, status,
                           "RemoveLink",
                           RemoveLink(f, dryRun, LinkAt(i), Src, FaultAt(fault, at, i)))
    [] status = StatusBroken ->
         IF dryRun
         THEN CleanLoop(f, i + 1, removedCount + 1, skippedCount, calls, fault, at)
         ELSE CleanRemoved(i, removedCount, skippedCount, calls, fault, at, status,
                           "os.Remove",
                           RemoveResult(Remove(f, LinkAt(i), FaultAt(fault, at, i) = "remove"),
                                        "failed to remove broken symlink"))
    [] OTHER ->
         CleanLoop(f, i + 1, removedCount, skippedCount + 1, calls, fault, at)

\* runClean's loop after CheckLink returned info.
CleanChecked(f, i, removedCount, skippedCount, calls, fault, at, info) ==
  CleanStep(f, i, removedCount, skippedCount, Append(calls, CheckCall(i, info)),
            fault, at, info.Status)

\* runClean, the loop over cfg.Links.
CleanLoop(f, i, removedCount, skippedCount, calls, fault, at) ==
  IF i > Len(links)
  THEN [fs |-> f, removed |-> removedCount, skipped |-> skippedCount, calls |-> calls]
  ELSE CleanChecked(f, i, removedCount, skippedCount, calls, fault, at,
                    CheckLink(f, LinkAt(i), Src, FaultAt(fault, at, i)))

\* runClean's return after the loop returned lp: always nil.
CleanResult(lp) ==
  [fs |-> lp.fs, err |-> "", calls |-> lp.calls, oob |-> FALSE,
   removed |-> lp.removed, skipped |-> lp.skipped]

\* runClean after the configuration is loaded.
RunClean(f, fault, at) == CleanResult(CleanLoop(f, 1, 0, 0, <<>>, fault, at))


\* -------------------------------------------------------------- initial states
\* The configurations explored.  The configuration supplier delivers
\* absolute, cleaned paths; each covers one placement of the links relative
\* to the source.
Config(src, lks) == [source |-> src, links |-> lks]
Configs ==
  { Config(<<"a", "b">>, << <<"b">> >>),                 \* link beside the source's directory
    Config(<<"a", "b">>, << <<"a", "a">> >>),            \* link in the source's directory
    Config(<<"a", "b">>, << <<"b", "a">> >>),            \* link in another directory
    Config(<<"a", "b">>, << <<"a", "b">> >>),            \* link path = source path
    Config(<<"a", "b">>, << <<"a">> >>),                 \* link path = the source's directory
    Config(<<"a", "b">>, << <<"b">>, <<"a", "a">> >>),   \* two independent links
    Config(<<"a", "b">>, << <<"b">>, <<"b", "a">> >>),   \* second link below the first
    Config(<<"a", "b">>, << <<"b">>, <<"a", "a", "b">> >>), \* second link below a directory
                                                         \* that may be a symlink to the first
    Config(<<"a">>, << <<"b">> >>),                      \* link beside the source
    Config(<<"a">>, << <<"b", "a">> >>),                 \* link one directory down
    Config(<<"a">>, << <<"a", "b">> >>) }                \* link path below the source path

\* What an entry of the initial filesystem may be.
LinkKinds == {"none", "file", "dir", "symRel", "symAbs", "symDot", "symOther"}
SourceKinds == {"none", "file", "dir", "symOther"}
AncestorKinds == {"none", "file", "dir", "symOther"}

IsLink(p, lks) == \E i \in 1..Len(lks) : lks[i] = p

Relevant(src, lks) ==
  {p \in AllPaths : IsPrefix(p, src) \/ \E i \in 1..Len(lks) : IsPrefix(p, lks[i])}

KindsOf(p, src, lks) ==
  (IF IsLink(p, lks) THEN LinkKinds ELSE {})
    \cup (IF p = src THEN SourceKinds ELSE {})
    \cup (IF ~IsLink(p, lks) /\ p # src THEN AncestorKinds ELSE {})

\* "X" is the content of the source file, "Y" of every other file.
EntryOf(kind, p, src) ==
  LET rel == Rel(Dir(AbsPath(p)), AbsPath(src)).path
  IN CASE kind = "none" -> NoEntry
       [] kind = "file" -> FileEntry(IF p = src THEN "X" ELSE "Y")
       [] kind = "dir" -> DirEntry
       [] kind = "symRel" -> LinkEntry(rel)
       [] kind = "symAbs" -> LinkEntry(AbsPath(src))
       [] kind = "symDot" -> LinkEntry(RelPath(<<".">> \o rel.segs))
       [] kind = "symOther" -> LinkEntry(AbsPath(<<"b">>))

\* The filesystems that extend f at depth d: entries only where the parent
\* is a directory.
Extend(f, d, src, lks) ==
  LET elig == {p \in Relevant(src, lks) :
                 Len(p) = d /\ (d = 1 \/ f[Parent(p)].type = "dir")}
      choice == {g \in [elig -> LinkKinds] : \A p \in elig : g[p] \in KindsOf(p, src, lks)}
  IN {[q \in AllPaths |-> IF q \in elig THEN EntryOf(g[q], q, src) ELSE f[q]] : g \in choice}

RECURSIVE Grow(_, _, _, _)
Grow(fset, d, src, lks) ==
  IF d > MaxDepth THEN fset
  ELSE Grow(UNION {Extend(f, d, src, lks) : f \in fset}, d + 1, src, lks)

InitFs(src, lks) == Grow({[q \in AllPaths |-> NoEntry]}, 1, src, lks)

NoInfo == LinkInfo(NoTarget, NoTarget, NoTarget, "", "")

Record(op, link, fault, at, pre, info, action, err, calls, removed, skipped) ==
  [op |-> op, link |-> link, fault |-> fault, at |-> at, pre |-> pre, info |-> info,
   action |-> action, err |-> err, calls |-> calls, removed |-> removed,
   skipped |-> skipped]

NoCall(f) == Record("none", <<>>, "none", 0, f, NoInfo, "", "", <<>>, 0, 0)

Init ==
  /\ \E c \in Configs : source = c.source /\ links = c.links
  /\ dryRun \in BOOLEAN
  /\ force \in BOOLEAN
  /\ fs \in InitFs(source, links)
  /\ pc = "idle"
  /\ last = NoCall(fs)

\* ------------------------------------------------------------------ actions
\* A fault is explored only where it changes what the call does.
\* manager.ValidateSource(cfg.Source)
DoValidateSource(fault) ==
  /\ pc = "idle"
  /\ \E v \in {ValidateSource(fs, force, Src, fault)} :
     /\ pc' = "returned"
     /\ last' = Record("ValidateSource", source, fault, 0, fs, NoInfo, "", v, <<>>, 0, 0)
     /\ UNCHANGED <<source, links, dryRun, force, fs>>

\* A classifier that deletes the symlink it finds pointing elsewhere.
DoCheckLink_Deleting(i, fault) ==
  /\ pc = "idle"
  /\ \E info \in {CheckLink(fs, LinkAt(i), Src, fault)} :
     /\ fault = "none" \/ info # CheckLink(fs, LinkAt(i), Src, "none")
     /\ pc' = "returned"
     /\ fs' = IF info.Status = StatusWrongTarget
              THEN Remove(fs, LinkAt(i), FALSE).fs ELSE fs
     /\ last' = Record("CheckLink", links[i], fault, i, fs, info, "", info.Error, <<>>, 0, 0)
     /\ UNCHANGED <<source, links, dryRun, force>>

\* manager.CheckLink(linkPath, cfg.Source)
DoCheckLink(i, fault) ==
  /\ pc = "idle"
  /\ \E info \in {CheckLink(fs, LinkAt(i), Src, fault)} :
     /\ fault = "none" \/ info # CheckLink(fs, LinkAt(i), Src, "none")
     /\ pc' = "returned"
     /\ last' = Record("CheckLink", links[i], fault, i, fs, info, "", info.Error, <<>>, 0, 0)
     /\ UNCHANGED <<source, links, dryRun, force, fs>>

\* manager.CreateLink(linkPath, cfg.Source)
DoCreateLink(i, fault) ==
  /\ pc = "idle"
  /\ \E r \in {CreateLink(fs, dryRun, LinkAt(i), Src, fault)} :
     /\ fault = "none" \/ r # CreateLink(fs, dryRun, LinkAt(i), Src, "none")
     /\ ~r.oob
     /\ pc' = "returned"
     /\ fs' = r.fs
     /\ last' = Record("CreateLink", links[i], fault, i, fs,
                       CheckLink(fs, LinkAt(i), Src, "none"), "", r.err, <<>>, 0, 0)
     /\ UNCHANGED <<source, links, dryRun, force>>

\* A RemoveLink that goes on to remove every configured managed link.
DoRemoveLink_Sweep(i, fault) ==
  /\ pc = "idle"
  /\ \E r \in {RemoveLink(fs, dryRun, LinkAt(i), Src, fault)} :
     /\ fault = "none" \/ r # RemoveLink(fs, dryRun, LinkAt(i), Src, "none")
     /\ pc' = "returned"
     /\ fs' = RunClean(r.fs, "none", 0).fs
     /\ last' = Record("RemoveLink", links[i], fault, i, fs,
                       CheckLink(fs, LinkAt(i), Src, fault), "", r.err, <<>>, 0, 0)
     /\ UNCHANGED <<source, links, dryRun, force>>

\* manager.RemoveLink(linkPath, cfg.Source)
DoRemoveLink(i, fault) ==
  /\ pc = "idle"
  /\ \E r \in {RemoveLink(fs, dryRun, LinkAt(i), Src, fault)} :
     /\ fault = "none" \/ r # RemoveLink(fs, dryRun, LinkAt(i), Src, "none")
     /\ pc' = "returned"
     /\ fs' = r.fs
     /\ last' = Record("RemoveLink", links[i], fault, i, fs,
                       CheckLink(fs, LinkAt(i), Src, fault), "", r.err, <<>>, 0, 0)
     /\ UNCHANGED <<source, links, dryRun, force>>

\* manager.FixLink(linkPath, cfg.Source)
DoFixLink(i, fault) ==
  /\ pc = "idle"
  /\ \E r \in {FixLink(fs, dryRun, force, LinkAt(i), Src, fault)} :
     /\ fault = "none" \/ r # FixLink(fs, dryRun, force, LinkAt(i), Src, "none")
     /\ ~r.oob
     /\ pc' = "returned"
     /\ fs' = r.fs
     /\ last' = Record("FixLink", links[i], fault, i, fs,
                       CheckLink(fs, LinkAt(i), Src, fault), r.action, r.err, <<>>, 0, 0)
     /\ UNCHANGED <<source, links, dryRun, force>>

\* agentlink sync
DoSync(fault, at) ==
  /\ pc = "idle"
  /\ \E r \in {RunSync(fs, fault, at)} :
     /\ (fault = "none" /\ at = 0) \/ (fault # "none" /\ r # RunSync(fs, "none", 0))
     /\ ~r.oob
     /\ pc' = "returned"
     /\ fs' = r.fs
     /\ last' = Record("sync", <<>>, fault, at, fs, NoInfo, "", r.err, r.calls, 0, 0)
     /\ UNCHANGED <<source, links, dryRun, force>>

\* agentlink check
DoCheck(fault, at) ==
  /\ pc = "idle"
  /\ \E r \in {RunCheck(fs, fault, at)} :
     /\ (fault = "none" /\ at = 0) \/ (fault # "none" /\ r # RunCheck(fs, "none", 0))
     /\ pc' = "returned"
     /\ fs' = r.fs
     /\ last' = Record("check", <<>>, fault, at, fs, NoInfo, "", r.err, r.calls, 0, 0)
     /\ UNCHANGED <<source, links, dryRun, force>>

\* agentlink clean
DoClean(fault, at) ==
  /\ pc = "idle"
  /\ \E r \in {RunClean(fs, fault, at)} :
     /\ (fault = "none" /\ at = 0) \/ (fault # "none" /\ r # RunClean(fs, "none", 0))
     /\ pc' = "returned"
     /\ fs' = r.fs
     /\ last' = Record("clean", <<>>, fault, at, fs, NoInfo, "", r.err, r.calls,
                       r.removed, r.skipped)
     /\ UNCHANGED <<source, links, dryRun, force>>

\* The call has returned and its results were consumed: the next call
\* starts from the filesystem it left.
Return ==
  /\ pc = "returned"
  /\ pc' = "idle"
  /\ last' = NoCall(fs)
  /\ UNCHANGED <<source, links, dryRun, force, fs>>

Next ==
  \/ \E fault \in {"none", "lstat"} : DoValidateSource(fault)
  \/ \E i \in 1..Len(links), fault \in {"none", "lstat", "readlink"} : DoCheckLink(i, fault)
  \/ \E i \in 1..Len(links), fault \in {"none", "mkdir", "symlink"} : DoCreateLink(i, fault)
  \/ \E i \in 1..Len(links), fault \in Faults : DoRemoveLink(i, fault)
  \/ \E i \in 1..Len(links), fault \in Faults : DoFixLink(i, fault)
  \/ \E fault \in Faults, at \in 0..Len(links) : DoSync(fault, at)
  \/ \E fault \in Faults, at \in 0..Len(links) : DoCheck(fault, at)
  \/ \E fault \in CleanFaults, at \in 0..Len(links) : DoClean(fault, at)
  \/ Return

Spec == Init /\ [][Next]_vars

\* ------------------------------------------------------------------- claims
Returned(op) == pc = "returned" /\ last.op = op
LastLink == AbsPath(last.link)

\* What lstat reports at a path: the error, or the entry found there.
EntryAt(f, p) == [err |-> Lstat(f, p, FALSE).err, entry |-> Lstat(f, p, FALSE).entry]

\* C1: source immutability.  After any FixLink, RemoveLink or clean run, for
\* every value of dryRun and force and every configured link path (the
\* source path and its directory included), a source file that existed
\* before the call is still there with the same type and content.
C1_SourceImmutable ==
  (/\ pc = "returned"
   /\ last.op \in {"FixLink", "RemoveLink", "clean"}
   /\ EntryAt(last.pre, Src).entry.type = "file")
    => EntryAt(fs, Src) = EntryAt(last.pre, Src)

\* C2: dry-run purity.  With dryRun set, FixLink, CreateLink and RemoveLink
\* leave the whole filesystem as it was (already when every system call
\* succeeds), and FixLink reports what the same call without dryRun reports.
C2_DryRunPure ==
  (/\ pc = "returned"
   /\ dryRun
   /\ last.fault = "none"
   /\ last.op \in {"FixLink", "CreateLink", "RemoveLink"})
    => /\ fs = last.pre
       /\ last.op = "FixLink" =>
            LET real == FixLink(last.pre, FALSE, force, LastLink, Src, last.fault)
            IN last.action = real.action /\ last.err = real.err

\* C3: safety under no-force.  Without force, FixLink on a link classified
\* WrongTarget or NotSymlink returns an error and no action, and the entry
\* at linkPath (and the rest of the filesystem) is as before.
C3_NoForceConflict ==
  (/\ Returned("FixLink")
   /\ ~force
   /\ last.info.Status \in {StatusWrongTarget, StatusNotSymlink})
    => /\ last.err # ""
       /\ last.action = ""
       /\ EntryAt(fs, LastLink) = EntryAt(last.pre, LastLink)
       /\ fs = last.pre

\* C3 witness: a regular file at the link path was refused and is still there.
C3_Witness ==
  /\ Returned("FixLink")
  /\ ~force
  /\ ~dryRun
  /\ last.info.Status = StatusNotSymlink
  /\ EntryAt(last.pre, LastLink).entry = FileEntry("Y")
  /\ EntryAt(fs, LastLink).entry = FileEntry("Y")
  /\ last.err = ConflictError(StatusNotSymlink)

\* C4 as stated: idempotence for any initial status and any flags.  After
\* one FixLink, CheckLink yields OK, and a second FixLink yields skip and
\* changes nothing.
C4_IdempotentAlways ==
  (Returned("FixLink") /\ last.fault = "none")
    => /\ CheckLink(fs, LastLink, Src, "none").Status = StatusOK
       /\ FixLink(fs, dryRun, force, LastLink, Src, "none").action = "skip"
       /\ FixLink(fs, dryRun, force, LastLink, Src, "none").fs = fs

\* C4 amended: idempotence of a repair that was carried out.  When FixLink
\* of a manager without dryRun returns no error, CheckLink then yields OK,
\* and a second FixLink yields skip without error and changes nothing.
C4_IdempotentOnSuccess ==
  (Returned("FixLink") /\ ~dryRun /\ last.err = "")
    => /\ CheckLink(fs, LastLink, Src, "none").Status = StatusOK
       /\ FixLink(fs, dryRun, force, LastLink, Src, "none").action = "skip"
       /\ FixLink(fs, dryRun, force, LastLink, Src, "none").err = ""
       /\ FixLink(fs, dryRun, force, LastLink, Src, "none").fs = fs

\* C4 witness: a link one directory down was created together with its
\* missing parent directory, and now classifies OK.
C4_Witness ==
  /\ Returned("FixLink")
  /\ ~dryRun
  /\ last.action = "create"
  /\ Len(last.link) = 2
  /\ Lookup(last.pre, Parent(last.link)).type = "none"
  /\ Lookup(fs, Parent(last.link)).type = "dir"
  /\ CheckLink(fs, LastLink, Src, "none").Status = StatusOK

\* C5: removal safety.  RemoveLink changes the filesystem only when the link
\* classifies OK, and then removes exactly the entry at linkPath; on a link
\* classified WrongTarget, NotSymlink, Missing or Broken it returns no error
\* and leaves everything in place.
C5_RemoveOnlyOK ==
  Returned("RemoveLink")
    => /\ last.info.Status # StatusOK => (last.err = "" /\ fs = last.pre)
       /\ fs # last.pre =>
            /\ last.info.Status = StatusOK
            /\ EntryAt(last.pre, LastLink).entry.type = "symlink"
            /\ EntryAt(fs, LastLink).err = "ENOENT"
            /\ Cardinality({q \in AllPaths : fs[q] # last.pre[q]}) = 1

\* C5 witness: RemoveLink without dryRun met a symlink to another target and
\* left it alone.
C5_Witness ==
  /\ Returned("RemoveLink")
  /\ ~dryRun
  /\ last.info.Status = StatusWrongTarget
  /\ last.err = ""
  /\ EntryAt(fs, LastLink).entry = LinkEntry(AbsPath(<<"b">>))
  /\ fs = last.pre

MutationErrors ==
  {"failed to remove wrong symlink", "failed to remove existing file",
   "failed to remove broken symlink", "failed to create parent directory",
   "failed to calculate relative path", "failed to create symlink"}

\* C6: decision table.  For a manager without dryRun whose removal and
\* creation calls succeed, FixLink's result is given by (status, force): OK
\* skip; Missing create; WrongTarget fix with force, conflict error without;
\* NotSymlink replace with force (nothing is left below the path), conflict
\* error without; Broken "fix broken" with and without force.  No other
\* action string occurs.
C6_DecisionTable ==
  (Returned("FixLink") /\ ~dryRun /\ last.err \notin MutationErrors)
    => LET st == last.info.Status
           done(a) == last.action = a /\ last.err = ""
           refused == last.action = "" /\ last.err = ConflictError(st)
       IN /\ st \in LinkStatus
          /\ st = StatusOK => done("skip")
          /\ st = StatusMissing => done("create")
          /\ st = StatusWrongTarget => IF force THEN done("fix") ELSE refused
          /\ st = StatusNotSymlink =>
               IF force
               THEN /\ done("replace")
                    /\ EntryAt(fs, LastLink).entry.type = "symlink"
                    /\ \A q \in AllPaths :
                         (IsPrefix(last.link, q) /\ q # last.link) => fs[q] = NoEntry
               ELSE refused
          /\ st = StatusBroken => done("fix broken")
          /\ last.action \in {"", "skip", "create", "fix", "replace", "fix broken"}

\* C6 witness: an entry that could not be classified was replaced without
\* force.
C6_Witness ==
  /\ Returned("FixLink")
  /\ ~dryRun
  /\ ~force
  /\ last.info.Status = StatusBroken
  /\ last.action = "fix broken"
  /\ EntryAt(fs, LastLink).entry.type = "symlink"

\* C7: a link classified OK is left untouched.  For every dryRun and force,
\* FixLink on an OK link returns skip without error and the whole filesystem
\* is unchanged.
C7_OKUntouched ==
  (Returned("FixLink") /\ last.info.Status = StatusOK)
    => /\ last.action = "skip"
       /\ last.err = ""
       /\ fs = last.pre

\* C7 witness: with force and without dryRun, a link storing the absolute
\* source path was skipped and still stores it.
C7_Witness ==
  /\ Returned("FixLink")
  /\ force
  /\ ~dryRun
  /\ last.info.Status = StatusOK
  /\ last.action = "skip"
  /\ EntryAt(last.pre, LastLink).entry = LinkEntry(Src)
  /\ EntryAt(fs, LastLink).entry = LinkEntry(Src)

\* C8: classification rule.  CheckLink returns one of the five statuses:
\* Missing iff lstat finds nothing at linkPath; Broken iff lstat fails in
\* another way or readlink fails; NotSymlink iff the entry is a file or a
\* directory; otherwise OK iff the stored target, put below the link's own
\* directory when relative and then cleaned, equals the cleaned source, and
\* WrongTarget if not.  Error is set only with Broken.
C8_ClassificationRule ==
  Returned("CheckLink")
    => LET st == last.info.Status
           li == EntryAt(last.pre, LastLink)
           lstatFails == last.fault = "lstat" \/ li.err # ""
           nothing == last.fault # "lstat" /\ li.err = "ENOENT"
           isSymlink == ~lstatFails /\ li.entry.type = "symlink"
           readlinkFails == isSymlink /\ last.fault = "readlink"
           raw == li.entry.target
           resolved == IF raw.abs THEN raw
                       ELSE AbsPath(Front(last.link) \o raw.segs)
           same == Clean(resolved) = Clean(Src)
       IN /\ st \in LinkStatus
          /\ st = StatusMissing <=> nothing
          /\ st = StatusBroken <=> ((lstatFails /\ ~nothing) \/ readlinkFails)
          /\ st = StatusNotSymlink <=> (~lstatFails /\ li.entry.type \in {"file", "dir"})
          /\ st = StatusOK <=> (isSymlink /\ ~readlinkFails /\ same)
          /\ st = StatusWrongTarget <=> (isSymlink /\ ~readlinkFails /\ ~same)
          /\ last.info.Error # "" => st = StatusBroken
          /\ st \in {StatusOK, StatusWrongTarget} => last.info.Target = raw

\* C8 witness: a relative target with a "." component, stored in a link one
\* directory down, resolved to the source and was classified OK.
C8_Witness ==
  /\ Returned("CheckLink")
  /\ last.fault = "none"
  /\ last.info.Status = StatusOK
  /\ Len(last.link) = 2
  /\ ~last.info.Target.abs
  /\ Head(last.info.Target.segs) = "."
  /\ last.info.Error = ""

\* A symlink whose target does not exist.
Dangling(f, p) == EntryAt(f, p).entry.type = "symlink" /\ Stat(f, p).err = "ENOENT"

\* C9: dangling symlink.  With the source file in place, a link that is a
\* symlink to a file that no longer exists is classified Broken by CheckLink (in the check command too), and
\* FixLink without force replaces it by a correct link and reports
\* "fix broken".
C9_DanglingIsBroken ==
  /\ (Returned("CheckLink") /\ last.fault = "none" /\ Dangling(last.pre, LastLink)
        /\ EntryAt(last.pre, Src).entry.type = "file")
       => last.info.Status = StatusBroken
  /\ (Returned("check") /\ last.fault = "none"
        /\ EntryAt(last.pre, Src).entry.type = "file")
       => \A i \in 1..Len(links) :
            Dangling(last.pre, LinkAt(i)) => last.calls[i + 1].status = StatusBroken
  /\ (Returned("FixLink") /\ last.fault = "none" /\ ~force /\ ~dryRun
        /\ Dangling(last.pre, LastLink) /\ EntryAt(last.pre, Src).entry.type = "file")
       => /\ last.action = "fix broken"
          /\ CheckLink(fs, LastLink, Src, "none").Status = StatusOK

\* The rule of source validation: the source is missing, is a symlink
\* without force, or is neither a regular file nor a symlink.
SourceInvalid(f, frc) ==
  \/ EntryAt(f, Src).err # ""
  \/ EntryAt(f, Src).entry.type = "symlink" /\ ~frc
  \/ EntryAt(f, Src).entry.type \notin {"file", "symlink"}

LinkCalls(calls) ==
  {k \in 1..Len(calls) : calls[k].fn \in {"CheckLink", "FixLink", "RemoveLink", "os.Remove"}}

\* C10 as stated: fail-fast source validation.  When the source fails
\* validation, sync and check both fail, and neither makes a CheckLink or
\* FixLink call for any link.
C10_FailFastBoth ==
  (/\ pc = "returned"
   /\ last.op \in {"sync", "check"}
   /\ last.fault = "none"
   /\ SourceInvalid(last.pre, last.op = "sync" /\ force))
    => /\ last.err # ""
       /\ LinkCalls(last.calls) = {}

\* C10 amended: when the source fails validation, sync fails before any link
\* is processed (its only call is ValidateSource, nothing is changed); check
\* fails too, but only after it has classified every configured link in
\* order with CheckLink, changing nothing.
C10_FailFastSync ==
  /\ (Returned("sync") /\ SourceInvalid(last.pre, force))
       => /\ last.err # ""
          /\ Len(last.calls) = 1
          /\ last.calls[1].fn = "ValidateSource"
          /\ fs = last.pre
  /\ (Returned("check") /\ SourceInvalid(last.pre, FALSE))
       => /\ last.err # ""
          /\ Len(last.calls) = 1 + Len(links)
          /\ last.calls[1].fn = "ValidateSource"
          /\ \A i \in 1..Len(links) :
               /\ last.calls[i + 1].fn = "CheckLink"
               /\ last.calls[i + 1].link = links[i]
          /\ fs = last.pre

\* C10 witness: sync without dryRun, the source missing and two links that
\* do not exist either: sync failed after validation and created nothing.
C10_Witness ==
  /\ Returned("sync")
  /\ ~dryRun
  /\ Len(links) = 2
  /\ EntryAt(last.pre, Src).err = "ENOENT"
  /\ \A i \in 1..Len(links) : CheckLink(last.pre, LinkAt(i), Src, "none").Status = StatusMissing
  /\ last.err = "source does not exist"
  /\ Len(last.calls) = 1
  /\ fs = last.pre

\* The filesystem after FixLink was applied to the first k configured links
\* in order, starting from f.
RECURSIVE FixedUpTo(_, _, _, _)
FixedUpTo(f, k, fault, at) ==
  IF k = 0 THEN f
  ELSE FixLink(FixedUpTo(f, k - 1, fault, at), dryRun, force, LinkAt(k), Src,
               FaultAt(fault, at, k)).fs

\* Source validation passed in the sync run that just returned.
SyncValidatedOK == Returned("sync") /\ last.calls[1].err = ""

\* C11: batch order and isolation.  Once source validation has passed, sync
\* calls FixLink exactly once for every configured link, in configuration
\* order, each on the filesystem the previous calls left, whether or not an
\* earlier link returned an error.
C11_BatchOrder ==
  SyncValidatedOK
    => /\ Len(last.calls) = 1 + Len(links)
       /\ \A i \in 1..Len(links) :
            LET r == FixLink(FixedUpTo(last.pre, i - 1, last.fault, last.at), dryRun, force,
                             LinkAt(i), Src, FaultAt(last.fault, last.at, i))
            IN /\ last.calls[i + 1].fn = "FixLink"
               /\ last.calls[i + 1].link = links[i]
               /\ last.calls[i + 1].action = r.action
               /\ last.calls[i + 1].err = r.err
       /\ fs = FixedUpTo(last.pre, Len(links), last.fault, last.at)

\* C11 witness: the first of two links was refused with a conflict error and
\* the second was created all the same.
C11_Witness ==
  /\ SyncValidatedOK
  /\ ~dryRun
  /\ Len(links) = 2
  /\ last.calls[2].err = ConflictError(StatusNotSymlink)
  /\ last.calls[3].action = "create"
  /\ CheckLink(fs, LinkAt(2), Src, "none").Status = StatusOK

\* The error FixLink returns for the i-th link in a sync run from f.
SyncLinkErr(f, i, fault, at) ==
  FixLink(FixedUpTo(f, i - 1, fault, at), dryRun, force, LinkAt(i), Src,
          FaultAt(fault, at, i)).err

\* C12: aggregate sync result.  After source validation has passed, sync
\* returns nil iff FixLink returned no error for every configured link;
\* otherwise it returns the one aggregate error, and in both cases every
\* link was attempted.
C12_AggregateResult ==
  SyncValidatedOK
    => /\ last.err = "" <=>
            \A i \in 1..Len(links) : SyncLinkErr(last.pre, i, last.fault, last.at) = ""
       /\ last.err \in {"", "sync completed with errors"}
       /\ Len(last.calls) = 1 + Len(links)
       /\ last.err = "" <=> \A k \in 2..Len(last.calls) : last.calls[k].err = ""

\* C12 witness: the first of two links was created, the second failed, and
\* the run ended with the aggregate error.
C12_Witness ==
  /\ SyncValidatedOK
  /\ ~dryRun
  /\ last.fault = "none"
  /\ Len(links) = 2
  /\ last.calls[2].action = "create"
  /\ last.calls[2].err = ""
  /\ last.calls[3].err # ""
  /\ last.err = "sync completed with errors"

\* C13: check result.  The check command returns nil iff the source passes
\* validation (of a manager without force) and every configured link
\* classifies as OK; a link that is Missing, WrongTarget, NotSymlink or
\* Broken makes it return an error; and it changes nothing.
C13_CheckResult ==
  Returned("check")
    => /\ last.err = "" <=>
            /\ ValidateSource(last.pre, FALSE, Src, FaultAt(last.fault, last.at, 0)) = ""
            /\ \A i \in 1..Len(links) :
                 CheckLink(last.pre, LinkAt(i), Src,
                           FaultAt(last.fault, last.at, i)).Status = StatusOK
       /\ last.fault = "none" =>
            (last.err = "" <=>
               /\ ~SourceInvalid(last.pre, FALSE)
               /\ \A i \in 1..Len(links) :
                    /\ EntryAt(last.pre, LinkAt(i)).entry.type = "symlink"
                    /\ TargetMatches(LinkAt(i), EntryAt(last.pre, LinkAt(i)).entry.target, Src))
       /\ last.err \in {"", "configuration has problems"}
       /\ fs = last.pre

\* C13 witness: the source is valid and the first of two links is OK, the
\* second is a symlink to another target: check returned the error and
\* changed nothing.
C13_Witness ==
  /\ Returned("check")
  /\ last.fault = "none"
  /\ Len(links) = 2
  /\ ~SourceInvalid(last.pre, FALSE)
  /\ last.calls[2].status = StatusOK
  /\ last.calls[3].status = StatusWrongTarget
  /\ last.err = "configuration has problems"
  /\ fs = last.pre

\* C14: sync-then-check convergence.  When a sync that is not a dry run
\* returns nil on a source that was a regular file (for either value of
\* force), a check run on the filesystem it left returns nil: the source is
\* valid and every configured link classifies as OK.
C14_SyncThenCheck ==
  (/\ Returned("sync")
   /\ ~dryRun
   /\ last.fault = "none"
   /\ EntryAt(last.pre, Src).entry.type = "file"
   /\ last.err = "")
    => /\ RunCheck(fs, "none", 0).err = ""
       /\ ~SourceInvalid(fs, FALSE)
       /\ \A i \in 1..Len(links) : CheckLink(fs, LinkAt(i), Src, "none").Status = StatusOK

\* The relative path from the directory of link to src (both sequences of
\* names below the root): one ".." for every directory of the link that is
\* not shared with src, then what is left of src.
RelativeTarget(link, src) ==
  LET d == Front(link)
      n == CommonLen(d, src)
  IN RelPath([i \in 1..(Len(d) - n) |-> ".."] \o SubSeq(src, n + 1, Len(src)))

\* C15: relative-target correctness.  A link created by CreateLink stores
\* the relative path from the link's directory to the source, never an
\* absolute one: the link /b for the source /a/b stores a/b, the link /b/a
\* for the source /a stores ../a; and the link's directory exists afterwards.
C15_RelativeTarget ==
  (Returned("CreateLink") /\ ~dryRun /\ last.err = "")
    => LET e == EntryAt(fs, LastLink).entry
       IN /\ e.type = "symlink"
          /\ ~IsAbs(e.target)
          /\ e.target = RelativeTarget(last.link, source)
          /\ Join(Dir(LastLink), e.target) = Src
          /\ (last.link = <<"b">> /\ source = <<"a", "b">>) => e.target.segs = <<"a", "b">>
          /\ (last.link = <<"b", "a">> /\ source = <<"a">>) => e.target.segs = <<"..", "a">>
          /\ Stat(fs, Dir(LastLink)).entry.type = "dir"

\* C15 witness: the link /b/a for the source /a was created together with
\* the missing directory /b and stores ../a.
C15_Witness ==
  /\ Returned("CreateLink")
  /\ ~dryRun
  /\ last.err = ""
  /\ last.link = <<"b", "a">>
  /\ source = <<"a">>
  /\ Lookup(last.pre, <<"b">>).type = "none"
  /\ Lookup(fs, <<"b">>).type = "dir"
  /\ Lookup(fs, <<"b", "a">>) = LinkEntry(RelPath(<<"..", "a">>))

\* C16: a successful repair converges.  For a manager without dryRun, when
\* FixLink returns one of the actions create, fix, replace, "fix broken" or
\* skip without error, a CheckLink that follows returns OK with no error,
\* and a second FixLink returns skip, no error, and the same filesystem.
C16_RepairConverges ==
  (/\ Returned("FixLink")
   /\ ~dryRun
   /\ last.err = ""
   /\ last.action \in {"create", "fix", "replace", "fix broken", "skip"})
    => /\ CheckLink(fs, LastLink, Src, "none").Status = StatusOK
       /\ CheckLink(fs, LastLink, Src, "none").Error = ""
       /\ FixLink(fs, FALSE, force, LastLink, Src, "none") =
            [action |-> "skip", err |-> "", fs |-> fs, oob |-> FALSE]

\* C16 witness: with force, a directory at the link path was replaced by a
\* link that now classifies OK.
C16_Witness ==
  /\ Returned("FixLink")
  /\ ~dryRun
  /\ force
  /\ last.action = "replace"
  /\ EntryAt(last.pre, LastLink).entry.type = "dir"
  /\ EntryAt(last.pre, Src).entry.type = "file"
  /\ EntryAt(fs, Src).entry.type = "file"
  /\ CheckLink(fs, LastLink, Src, "none").Status = StatusOK

\* What reading the file at path p returns: the content of the regular file
\* the path resolves to, or the error.
ReadFile(f, p) ==
  IF Stat(f, p).err # "" THEN [err |-> Stat(f, p).err, content |-> ""]
  ELSE IF Stat(f, p).entry.type # "file" THEN [err |-> "EISDIR", content |-> ""]
  ELSE [err |-> "", content |-> Stat(f, p).entry.content]

\* C17 as stated: create/classify round trip.  For a manager without
\* dryRun, a source that is a regular file and a link path at which nothing
\* exists, a CreateLink that returns no error is followed by CheckLink
\* returning OK, and reading through the link returns the source's content.
C17_CreateRoundTrip ==
  (/\ Returned("CreateLink")
   /\ ~dryRun
   /\ last.fault = "none"
   /\ EntryAt(last.pre, LastLink).err = "ENOENT"
   /\ ReadFile(last.pre, Src) = [err |-> "", content |-> "X"]
   /\ last.err = "")
    => /\ CheckLink(fs, LastLink, Src, "none").Status = StatusOK
       /\ ReadFile(fs, LastLink) = [err |-> "", content |-> "X"]

\* C18: source validation rule.  ValidateSource returns no error iff lstat
\* finds an entry at the source path that is a regular file, or a symlink
\* while force is set; a missing source, a directory and a symlink without
\* force are rejected, each with its own error; the filesystem is unchanged.
C18_ValidateRule ==
  Returned("ValidateSource")
    => LET e == EntryAt(last.pre, Src)
           found == last.fault = "none" /\ e.err = ""
       IN /\ last.err = "" <=>
               (found /\ (e.entry.type = "file" \/ (e.entry.type = "symlink" /\ force)))
          /\ (last.fault = "none" /\ e.err = "ENOENT") => last.err = "source does not exist"
          /\ (found /\ e.entry.type = "dir") => last.err = "source is not a regular file"
          /\ (found /\ e.entry.type = "symlink" /\ ~force) => last.err = "source is a symlink"
          /\ (~found /\ ~(last.fault = "none" /\ e.err = "ENOENT"))
               => last.err = "failed to stat source"
          /\ fs = last.pre

\* C18 witness: with force, a source that is a symlink was accepted.
C18_Witness ==
  /\ Returned("ValidateSource")
  /\ force
  /\ last.fault = "none"
  /\ EntryAt(last.pre, Src).entry.type = "symlink"
  /\ last.err = ""
  /\ fs = last.pre

\* The physical paths whose entry differs between f and g.
Changed(f, g) == {q \in AllPaths : f[q] # g[q]}

\* The entry at the physical path q of f is a symlink that some configured
\* link path names and whose target is the source.
ManagedLinkAt(f, q) ==
  /\ f[q].type = "symlink"
  /\ \E i \in 1..Len(links) :
       /\ Lstat(f, LinkAt(i), FALSE).err = ""
       /\ Lstat(f, LinkAt(i), FALSE).path = q
       /\ TargetMatches(LinkAt(i), f[q].target, Src)

\* The calls of a clean run that classified a link with one of statuses.
CallsWith(calls, statuses) ==
  {k \in 1..Len(calls) : calls[k].fn = "CheckLink" /\ calls[k].status \in statuses}

\* C19: clean removes only managed links.  For every value of force, every
\* entry a clean run removes is a symlink at a configured link path that
\* points to the source; links classified WrongTarget, NotSymlink or
\* Missing are counted as skipped; no regular file or directory, and not
\* the source, is removed.
C19_CleanOnlyManaged ==
  Returned("clean")
    => /\ \A q \in Changed(last.pre, fs) :
            /\ fs[q] = NoEntry
            /\ ManagedLinkAt(last.pre, q)
       /\ last.skipped =
            Cardinality(CallsWith(last.calls,
                                  {StatusWrongTarget, StatusNotSymlink, StatusMissing}))
       /\ EntryAt(last.pre, Src).entry.type = "file"
            => EntryAt(fs, Src) = EntryAt(last.pre, Src)

\* The status CheckLink gives the i-th link in a run on f with a failure
\* injected at link number at.
StatusIn(f, i, fault, at) == CheckLink(f, LinkAt(i), Src, FaultAt(fault, at, i)).Status

\* C20: clean dry run.  With dryRun set, clean removes nothing whatever the
\* statuses are, classifies every configured link once, in order, reports
\* as "would remove" the number of links classified OK or Broken and as
\* skipped the number classified Missing, WrongTarget or NotSymlink, and
\* returns nil.
C20_CleanDryRun ==
  (Returned("clean") /\ dryRun)
    => /\ fs = last.pre
       /\ Len(last.calls) = Len(links)
       /\ \A i \in 1..Len(links) :
            /\ last.calls[i].fn = "CheckLink"
            /\ last.calls[i].link = links[i]
            /\ last.calls[i].status = StatusIn(last.pre, i, last.fault, last.at)
       /\ last.removed =
            Cardinality({i \in 1..Len(links) :
                           StatusIn(last.pre, i, last.fault, last.at)
                             \in {StatusOK, StatusBroken}})
       /\ last.skipped =
            Cardinality({i \in 1..Len(links) :
                           StatusIn(last.pre, i, last.fault, last.at)
                             \in {StatusMissing, StatusWrongTarget, StatusNotSymlink}})
       /\ last.err = ""

\* C20 witness: a dry run over a managed link and a regular file reported
\* one link to remove and one skipped, and both are still there.
C20_Witness ==
  /\ Returned("clean")
  /\ dryRun
  /\ last.fault = "none"
  /\ Len(links) = 2
  /\ last.calls[1].status = StatusOK
  /\ last.calls[2].status = StatusNotSymlink
  /\ last.removed = 1
  /\ last.skipped = 1
  /\ EntryAt(fs, LinkAt(1)).entry.type = "symlink"
  /\ EntryAt(fs, LinkAt(2)).entry.type = "file"

OtherLinks == {j \in 1..Len(links) : j # last.at}

\* C22: link independence.  A FixLink or RemoveLink of one configured link,
\* with any flags, changes no entry at another configured link path, and
\* the classification of every other configured link is the same before
\* and after the call.
C22_LinkIndependence ==
  (pc = "returned" /\ last.op \in {"FixLink", "RemoveLink"})
    => \A j \in OtherLinks :
         /\ EntryAt(fs, LinkAt(j)) = EntryAt(last.pre, LinkAt(j))
         /\ CheckLink(fs, LinkAt(j), Src, "none") = CheckLink(last.pre, LinkAt(j), Src, "none")

\* Neither of the paths p and q lies inside the other.
Disjoint(p, q) == ~IsPrefix(p, q) /\ ~IsPrefix(q, p)

\* No directory above a configured link path is a symlink in f.
NoSymlinkAbove(f) ==
  \A j \in 1..Len(links) : \A q \in AllPaths :
    (IsPrefix(q, links[j]) /\ q # links[j]) => f[q].type # "symlink"

\* C22 (amended): when no directory above a configured link path is a
\* symlink, a FixLink or RemoveLink of one link changes only the entry at
\* its linkPath, missing directories above it (created) and entries below
\* it (removed with a replaced directory); every other configured link
\* whose path lies neither inside nor above linkPath has the same entry
\* and the same classification before and after.
C22_IndependentWhenDisjoint ==
  (/\ pc = "returned"
   /\ last.op \in {"FixLink", "RemoveLink"}
   /\ NoSymlinkAbove(last.pre))
    => /\ \A q \in Changed(last.pre, fs) :
            \/ q = last.link
            \/ IsPrefix(q, last.link) /\ last.pre[q] = NoEntry /\ fs[q] = DirEntry
            \/ IsPrefix(last.link, q) /\ fs[q] = NoEntry
       /\ \A j \in OtherLinks :
            Disjoint(links[j], last.link)
              => /\ EntryAt(fs, LinkAt(j)) = EntryAt(last.pre, LinkAt(j))
                 /\ CheckLink(fs, LinkAt(j), Src, "none")
                      = CheckLink(last.pre, LinkAt(j), Src, "none")

\* C22 witness: a forced FixLink replaced the entry at one link path while
\* the other configured link, in another directory, stayed OK.
C22_Witness ==
  /\ Returned("FixLink")
  /\ NoSymlinkAbove(last.pre)
  /\ Len(links) = 2
  /\ last.at = 1
  /\ Disjoint(links[1], links[2])
  /\ last.action = "replace"
  /\ fs # last.pre
  /\ CheckLink(last.pre, LinkAt(2), Src, "none").Status = StatusOK
  /\ CheckLink(fs, LinkAt(2), Src, "none").Status = StatusOK

\* C23: failure atomicity of repair.  Whenever FixLink returns an error,
\* for any status and any flags, the entry at linkPath is the one that was
\* there before the call.
C23_FailureAtomic ==
  (Returned("FixLink") /\ last.err # "")
    => EntryAt(fs, LastLink) = EntryAt(last.pre, LastLink)

\* The entry at the last call's link path was, before the call, a symlink
\* storing the absolute source path or the relative path from the link's
\* directory to the source.
WasAbsLink == EntryAt(last.pre, LastLink).entry = LinkEntry(Src)
WasRelLink ==
  EntryAt(last.pre, LastLink).entry = LinkEntry(RelativeTarget(last.link, source))

\* The actions with which FixLink creates the link.
CreatingActions == {"create", "fix", "replace", "fix broken"}

\* FixLink, without a failing system call, finds the link of the last
\* call OK, answers skip and leaves the filesystem alone.
SkippedUntouched ==
  /\ last.info.Status = StatusOK
  /\ last.action = "skip"
  /\ last.err = ""
  /\ fs = last.pre

\* C24: absolute and relative targets are equivalent for classification.
\* A symlink storing the absolute source path and one storing the relative
\* path both classify as OK, FixLink skips both and rewrites neither; and
\* after a successful non-dry-run FixLink the stored target is relative
\* only if FixLink itself created the link.
C24_AbsRelRelativeOnlyIfCreated ==
  (Returned("FixLink") /\ last.fault = "none")
    => /\ (WasAbsLink \/ WasRelLink) => SkippedUntouched
       /\ (/\ ~dryRun
           /\ last.err = ""
           /\ EntryAt(fs, LastLink).entry.type = "symlink"
           /\ ~IsAbs(EntryAt(fs, LastLink).entry.target))
            => last.action \in CreatingActions

\* C24 (amended): a symlink storing the absolute source path and one
\* storing the relative path both classify as OK, and FixLink skips both
\* and leaves the stored target as it is, absolute or relative; after a
\* successful non-dry-run FixLink the stored target differs from the one
\* before the call only if FixLink itself created the link, and then it
\* is the relative path.
C24_AbsRelEquivalent ==
  (Returned("FixLink") /\ last.fault = "none")
    => /\ (WasAbsLink \/ WasRelLink) => SkippedUntouched
       /\ (~dryRun /\ last.err = "")
            => \/ /\ last.action = "skip"
                  /\ EntryAt(fs, LastLink) = EntryAt(last.pre, LastLink)
               \/ /\ last.action \in CreatingActions
                  /\ EntryAt(fs, LastLink).entry
                       = LinkEntry(RelativeTarget(last.link, source))

\* C24 witness: FixLink skipped a link that stores the absolute source path
\* although the relative path is a different string, and it still stores
\* the absolute one.
C24_Witness ==
  /\ Returned("FixLink")
  /\ last.fault = "none"
  /\ ~dryRun
  /\ WasAbsLink
  /\ ~WasRelLink
  /\ last.action = "skip"
  /\ EntryAt(fs, LastLink).entry = LinkEntry(Src)

\* The CheckLink records of a check run on f: one per configured link, in
\* order, as a manager without flags classifies them.
RECURSIVE PlainChecks(_, _, _, _)
PlainChecks(f, k, fault, at) ==
  IF k = 0 THEN <<>>
  ELSE Append(PlainChecks(f, k - 1, fault, at),
              CheckCall(k, CheckLink(f, LinkAt(k), Src, FaultAt(fault, at, k))))

\* C25: check ignores the policy flags.  The check command works with
\* dryRun = false and force = false whatever --dry-run and --force are: its
\* source validation result, its per-link statuses and its exit result
\* are determined by the filesystem and the configuration alone, and it
\* changes nothing; a symlink source is a problem even with --force.
C25_CheckIgnoresFlags ==
  Returned("check")
    => /\ fs = last.pre
       /\ last.calls
            = <<ValidateCall(ValidateSource(last.pre, FALSE, Src,
                                            FaultAt(last.fault, last.at, 0)))>>
                \o PlainChecks(last.pre, Len(links), last.fault, last.at)
       /\ last.err = "" <=> \A k \in 1..Len(last.calls) :
                              /\ last.calls[k].err = ""
                              /\ last.calls[k].status \in {"", StatusOK}
       /\ EntryAt(last.pre, Src).entry.type = "symlink"
            => last.calls[1].err # "" /\ last.err # ""

\* C25 witness: check run with --force and --dry-run on a symlink source
\* and a managed link reported the source as a problem and the link OK.
C25_Witness ==
  /\ Returned("check")
  /\ force
  /\ dryRun
  /\ last.fault = "none"
  /\ EntryAt(last.pre, Src).entry.type = "symlink"
  /\ last.calls[1].err # ""
  /\ last.calls[2].status = StatusOK
  /\ last.err = "configuration has problems"

\* The positions in calls of the calls to fn.
CallsTo(calls, fn) == {k \in 1..Len(calls) : calls[k].fn = fn}

\* The removals of a clean run, and those that returned an error.
Removals(calls) == CallsTo(calls, "RemoveLink") \cup CallsTo(calls, "os.Remove")
FailedRemovals(calls) == {k \in Removals(calls) : calls[k].err # ""}

\* C26: clean accounting and result.  clean classifies every configured
\* link exactly once, in configuration order, and returns nil even when a
\* removal fails; removedCount + skippedCount is the number of configured
\* links minus the number of links whose removal failed; and in a
\* non-dry run every link counted as removed no longer exists at its
\* path.
C26_CleanAccounting ==
  Returned("clean")
    => /\ Cardinality(CallsTo(last.calls, "CheckLink")) = Len(links)
       /\ \A j, k \in CallsTo(last.calls, "CheckLink") :
            j < k => \E m, n \in 1..Len(links) :
                       m < n /\ last.calls[j].link = links[m] /\ last.calls[k].link = links[n]
       /\ last.err = ""
       /\ last.removed + last.skipped
            = Len(links) - Cardinality(FailedRemovals(last.calls))
       /\ ~dryRun
            => \A k \in Removals(last.calls) \ FailedRemovals(last.calls) :
                 IsNotExist(EntryAt(fs, AbsPath(last.calls[k].link)).err)

=============================================================================
